---- MODULE Spec2Model ----
(***************************************************************************)
(* Model of mspyl, a command-line front end that builds argument vectors   *)
(* for an external package tool, runs them and reports the outcome.        *)
(*                                                                         *)
(* Strings are sequences of symbols.  The symbols the code inspects        *)
(* (" ", "\n", "*", "!", "=", digits, ".") are single characters; a token  *)
(* the code never looks into ("pip", "--system", ...) is one symbol.       *)
(* Optional[str] None is the empty string wherever the code only tests     *)
(* truthiness; a stream that was not captured is the value None below.     *)
(***************************************************************************)
EXTENDS Integers, Sequences, FiniteSets, TLC

VARIABLES platform, onPath, pc, op, inp, python_path, list_of_args,
          packages, idx, calls, printed, result, outcome,
          tables, fs, net, environ

vars == <<platform, onPath, pc, op, inp, python_path, list_of_args,
          packages, idx, calls, printed, result, outcome,
          tables, fs, net, environ>>

----------------------------------------------------------------------------
(* Bounds *)

MaxRet == 1
MaxBlobLen == 2
MaxDecodeLen == 4
MaxTokens == 2
MaxPkgs == 2

----------------------------------------------------------------------------
(* Python string primitives, as the code uses them *)

None == <<"None">>

Whitespace == {" ", "\n"}

RECURSIVE LStripChars(_, _)
LStripChars(s, cs) ==
    IF s # <<>> /\ Head(s) \in cs THEN LStripChars(Tail(s), cs) ELSE s

RECURSIVE RStripChars(_, _)
RStripChars(s, cs) ==
    IF s # <<>> /\ s[Len(s)] \in cs
    THEN RStripChars(SubSeq(s, 1, Len(s) - 1), cs)
    ELSE s

\* str.strip(chars): drops every leading and every trailing symbol of chars
StripChars(s, cs) == RStripChars(LStripChars(s, cs), cs)

\* str.strip()
Strip(s) == StripChars(s, Whitespace)

\* str.replace(old, new) for one-symbol old and new
Replace(s, old, new) == [i \in 1..Len(s) |-> IF s[i] = old THEN new ELSE s[i]]

\* str.split(): split on runs of whitespace, no empty tokens
RECURSIVE SplitFrom(_, _)
SplitFrom(s, cur) ==
    IF s = <<>> THEN (IF cur = <<>> THEN <<>> ELSE <<cur>>)
    ELSE IF Head(s) \in Whitespace
         THEN (IF cur = <<>> THEN <<>> ELSE <<cur>>) \o SplitFrom(Tail(s), <<>>)
         ELSE SplitFrom(Tail(s), Append(cur, Head(s)))

Split(s) == SplitFrom(s, <<>>)

\* str.splitlines(): lines end at "\n"; no empty last line
RECURSIVE SplitLinesFrom(_, _)
SplitLinesFrom(s, cur) ==
    IF s = <<>> THEN (IF cur = <<>> THEN <<>> ELSE <<cur>>)
    ELSE IF Head(s) = "\n"
         THEN <<cur>> \o SplitLinesFrom(Tail(s), <<>>)
         ELSE SplitLinesFrom(Tail(s), Append(cur, Head(s)))

SplitLines(s) == SplitLinesFrom(s, <<>>)

\* sep.join(parts) for a one-symbol separator
RECURSIVE Join(_, _)
Join(parts, sep) ==
    IF parts = <<>> THEN <<>>
    ELSE IF Len(parts) = 1 THEN parts[1]
    ELSE parts[1] \o <<sep>> \o Join(Tail(parts), sep)

\* line.split("==")[0]: the part before the first "==", or the whole line
RECURSIVE BeforeSep(_)
BeforeSep(s) ==
    IF Len(s) < 2 THEN s
    ELSE IF s[1] = "=" /\ s[2] = "=" THEN <<>>
    ELSE <<Head(s)>> \o BeforeSep(Tail(s))

\* all sequences over S of length at most n
SeqsUpTo(S, n) == UNION {[1..k -> S] : k \in 0..n}

----------------------------------------------------------------------------
(* package.py module constants *)

UV_EXECUTABLE == IF platform = "win32" THEN <<"uv.exe">> ELSE <<" uv">>
PIP_COMMAND == <<"pip">>
UPGRADE_FLAG == <<"--upgrade">>
SYSTEM_FLAG == <<"--system">>

----------------------------------------------------------------------------
(* Command Runner *)

NoteNotFound == "or may uv not found. Please ensure it's installed and in your PATH."
NoteError == "Error executing command"

\* as SubprocessRun, but the error of a failed process loses its stderr
SubprocessRun_no_stderr(cmd, check, capture_output, proc) ==
    LET out == IF capture_output THEN proc.out ELSE None
    IN  IF ~proc.exists
        THEN [kind |-> "FileNotFoundError", returncode |-> 0,
              stdout |-> None, stderr |-> None, notes |-> <<>>]
        ELSE IF check /\ proc.returncode # 0
        THEN [kind |-> "CalledProcessError", returncode |-> proc.returncode,
              stdout |-> out, stderr |-> None, notes |-> <<>>]
        ELSE [kind |-> "CompletedProcess", returncode |-> proc.returncode,
              stdout |-> out, stderr |-> IF capture_output THEN proc.err ELSE None,
              notes |-> <<>>]

\* as SubprocessRun, but a non-zero exit raises whatever check says
SubprocessRun_always_check(cmd, check, capture_output, proc) ==
    LET out == IF capture_output THEN proc.out ELSE None
        err == IF capture_output THEN proc.err ELSE None
    IN  IF ~proc.exists
        THEN [kind |-> "FileNotFoundError", returncode |-> 0,
              stdout |-> None, stderr |-> None, notes |-> <<>>]
        ELSE IF proc.returncode # 0
        THEN [kind |-> "CalledProcessError", returncode |-> proc.returncode,
              stdout |-> out, stderr |-> err, notes |-> <<>>]
        ELSE [kind |-> "CompletedProcess", returncode |-> proc.returncode,
              stdout |-> out, stderr |-> err, notes |-> <<>>]

\* subprocess.run(cmd, capture_output, text=True, check): proc is what the
\* operating system answers for cmd
SubprocessRun(cmd, check, capture_output, proc) ==
    LET out == IF capture_output THEN proc.out ELSE None
        err == IF capture_output THEN proc.err ELSE None
    IN  IF ~proc.exists
        THEN [kind |-> "FileNotFoundError", returncode |-> 0,
              stdout |-> None, stderr |-> None, notes |-> <<>>]
        ELSE IF check /\ proc.returncode # 0
        THEN [kind |-> "CalledProcessError", returncode |-> proc.returncode,
              stdout |-> out, stderr |-> err, notes |-> <<>>]
        ELSE [kind |-> "CompletedProcess", returncode |-> proc.returncode,
              stdout |-> out, stderr |-> err, notes |-> <<>>]

\* as run_command, without the handler of FileNotFoundError
run_command_no_guidance(cmd, check, capture_output, proc) ==
    LET r == SubprocessRun(cmd, check, capture_output, proc)
    IN  IF r.kind = "CalledProcessError"
        THEN [r EXCEPT !.notes = <<NoteError>>]
        ELSE r

run_command(cmd, check, capture_output, proc) ==
    LET r == SubprocessRun(cmd, check, capture_output, proc)
    IN  IF r.kind = "FileNotFoundError"
        THEN [r EXCEPT !.notes = <<NoteNotFound>>]
        ELSE IF r.kind = "CalledProcessError"
        THEN [r EXCEPT !.notes = <<NoteError>>]
        ELSE r

Raised(r) == r.kind # "CompletedProcess"

----------------------------------------------------------------------------
(* Argument Decoder *)

\* as decode, without the replacement of the sentinel
decode_no_replace(args) == Split(StripChars(args, {"*"}))

decode(args) == Split(Replace(StripChars(args, {"*"}), "!", " "))

----------------------------------------------------------------------------
(* Environment: the programs the search path resolves, and what a process
   answers *)

UV == <<"uv">>
P1 == <<"/venv/python">>
P2 == <<"/usr/python">>

Programs == {UV_EXECUTABLE, UV, P1, P2}

RetCodes == 0..MaxRet

Proc(cmd, rc, out, err) ==
    [exists |-> cmd[1] \in onPath, returncode |-> rc, out |-> out, err |-> err]

Call(cmd, check, r) ==
    [argv |-> cmd, check |-> check, kind |-> r.kind, returncode |-> r.returncode]

Msg(m, a, d) == [msg |-> m, arg |-> a, detail |-> d]

NoResult ==
    [kind |-> "none", returncode |-> 0, stdout |-> None, stderr |-> None,
     notes |-> <<>>]

----------------------------------------------------------------------------
(* Interpreter resolution *)

IsDigit(c) == c \in {"0", "1", "2", "3", "4", "5", "6", "7", "8", "9"}

\* re.compile(r"\d+\.\d+\.?\d?[A-z]?").match: the optional tail always
\* matches, so a match needs digits, a dot and a digit at the start
match_python_version(v) ==
    \E i \in 1..Len(v) :
        /\ \A j \in 1..i : IsDigit(v[j])
        /\ i + 2 <= Len(v)
        /\ v[i + 1] = "."
        /\ IsDigit(v[i + 2])

\* as locate_python_version, with the system-wide lookup made first
locate_python_version_system_first(target_version, rc1, out1, rc2, out2) ==
    LET venv_cmd == <<UV_EXECUTABLE, <<"python">>, <<"find">>, target_version>>
        python_cmd == venv_cmd \o <<SYSTEM_FLAG>>
        venv_paths == run_command(venv_cmd, FALSE, TRUE,
                                  Proc(venv_cmd, rc1, out1, <<>>))
        python_paths == run_command(python_cmd, FALSE, TRUE,
                                    Proc(python_cmd, rc2, out2, <<>>))
        matching_paths == SplitLines(Strip(python_paths.stdout))
                            \o SplitLines(Strip(venv_paths.stdout))
    IN  IF Raised(python_paths)
        THEN [raised |-> python_paths.kind, value |-> <<>>,
              calls |-> <<Call(python_cmd, FALSE, python_paths)>>,
              printed |-> <<>>]
        ELSE [raised |-> "none", value |-> Join(matching_paths, "\n"),
              calls |-> <<Call(python_cmd, FALSE, python_paths),
                          Call(venv_cmd, FALSE, venv_paths)>>,
              printed |-> IF matching_paths = <<>>
                          THEN <<Msg("NoPythonVersionsFound", target_version, <<>>)>>
                          ELSE <<>>]

\* rc1/out1 and rc2/out2 are the answers of the two lookups
locate_python_version(target_version, rc1, out1, rc2, out2) ==
    LET venv_cmd == <<UV_EXECUTABLE, <<"python">>, <<"find">>, target_version>>
        python_cmd == venv_cmd \o <<SYSTEM_FLAG>>
        venv_paths == run_command(venv_cmd, FALSE, TRUE,
                                  Proc(venv_cmd, rc1, out1, <<>>))
        python_paths == run_command(python_cmd, FALSE, TRUE,
                                    Proc(python_cmd, rc2, out2, <<>>))
        matching_paths == SplitLines(Strip(venv_paths.stdout))
                            \o SplitLines(Strip(python_paths.stdout))
    IN  IF Raised(venv_paths)
        THEN [raised |-> venv_paths.kind, value |-> <<>>,
              calls |-> <<Call(venv_cmd, FALSE, venv_paths)>>,
              printed |-> <<>>]
        ELSE IF Raised(python_paths)
        THEN [raised |-> python_paths.kind, value |-> <<>>,
              calls |-> <<Call(venv_cmd, FALSE, venv_paths),
                          Call(python_cmd, FALSE, python_paths)>>,
              printed |-> <<>>]
        ELSE [raised |-> "none", value |-> Join(matching_paths, "\n"),
              calls |-> <<Call(venv_cmd, FALSE, venv_paths),
                          Call(python_cmd, FALSE, python_paths)>>,
              printed |-> IF matching_paths = <<>>
                          THEN <<Msg("NoPythonVersionsFound", target_version, <<>>)>>
                          ELSE <<>>]

\* PackageManager.__init__
PackageManagerInit(python_version, rc1, out1, rc2, out2) ==
    IF python_version # <<>> /\ match_python_version(python_version)
    THEN LET l == locate_python_version(python_version, rc1, out1, rc2, out2)
         IN  IF l.raised = "none" /\ l.value = <<>>
             THEN [l EXCEPT !.printed =
                     Append(@, Msg("CouldNotLocatePython", python_version, <<>>))]
             ELSE l
    ELSE [raised |-> "none", value |-> <<>>, calls |-> <<>>, printed |-> <<>>]

----------------------------------------------------------------------------
(* State *)

Versions == {<<>>, <<"3", ".", "1">>, <<"py">>}
\* a lookup prints nothing or the path of an interpreter that exists
VenvOuts == {<<>>} \cup (IF P1 \in onPath THEN {P1 \o <<"\n">>} ELSE {})
SystemOuts == {<<>>} \cup (IF P2 \in onPath THEN {P2 \o <<"\n">>} ELSE {})
Outs == {<<>>, <<"o">>}
Errs == {<<>>, <<"e">>}

BlobAlphabet == {"*", "!", "a"}
Blobs == SeqsUpTo(BlobAlphabet, MaxBlobLen)

DecodeAlphabet == {"*", "!", " ", "a", "b"}
DecodeBlobs == SeqsUpTo(DecodeAlphabet, MaxDecodeLen)

\* the file system, the network and the process environment as a command
\* that does not use them finds and leaves them
NoFiles == [dir |-> "absent", descriptor |-> None]
NoEnviron == [VIRTUAL_ENV |-> None, PATH |-> None]

Untouched ==
    /\ tables = <<>>
    /\ fs = NoFiles
    /\ net = <<>>
    /\ environ = NoEnviron

Init ==
    /\ platform \in {"win32", "linux"}
    /\ onPath \in SUBSET Programs
    /\ pc = "idle"
    /\ op = "none"
    /\ inp = [args |-> <<>>]
    /\ python_path = <<>>
    /\ list_of_args = <<>>
    /\ packages = <<>>
    /\ idx = 0
    /\ calls = <<>>
    /\ printed = <<>>
    /\ result = NoResult
    /\ outcome = "running"
    /\ Untouched

\* the invocation ends: normally, or with the exception e uncaught
Finish(e) ==
    /\ pc' = "done"
    /\ outcome' = e

exit_status == IF outcome = "ok" THEN 0 ELSE 1

----------------------------------------------------------------------------
(* The command runner called on its own *)

RunCmds == {<<p, <<"arg">>>> : p \in Programs \cup {<<"nope">>}}

RunCommandCall ==
    /\ pc = "idle"
    /\ \E cmd \in RunCmds, check \in BOOLEAN, capture_output \in BOOLEAN,
          rc \in RetCodes, out \in Outs, err \in Errs :
         LET proc == Proc(cmd, rc, out, err)
             r == run_command(cmd, check, capture_output, proc)
         IN  /\ op' = "run_command"
             /\ inp' = [cmd |-> cmd, check |-> check,
                        capture_output |-> capture_output, proc |-> proc]
             /\ result' = r
             /\ calls' = <<Call(cmd, check, r)>>
             /\ Finish(IF Raised(r) THEN r.kind ELSE "ok")
    /\ UNCHANGED <<tables, fs, net, environ, platform, onPath, python_path, list_of_args, packages,
                   idx, printed>>

\* a call of locate_python_version; its return value is kept in python_path
LocatePythonVersion ==
    /\ pc = "idle"
    /\ \E target_version \in Versions,
          rc1 \in RetCodes, out1 \in VenvOuts,
          rc2 \in RetCodes, out2 \in SystemOuts :
         LET l == locate_python_version(target_version, rc1, out1, rc2, out2)
         IN  /\ op' = "locate_python_version"
             /\ inp' = [target_version |-> target_version,
                        rc1 |-> rc1, out1 |-> out1, rc2 |-> rc2, out2 |-> out2]
             /\ python_path' = l.value
             /\ calls' = l.calls
             /\ printed' = l.printed
             /\ Finish(IF l.raised # "none" THEN l.raised ELSE "ok")
    /\ UNCHANGED <<tables, fs, net, environ, platform, onPath, list_of_args,
                   packages, idx, result>>

----------------------------------------------------------------------------
(* package commands *)

\* PackageManager.install
PackageManagerInstall(path, args, rc, out) ==
    LET args_list == decode(args)
        cmd == IF path # <<>>
               THEN <<Strip(path), <<"-m">>, <<"uv">>, PIP_COMMAND, <<"install">>>>
                      \o args_list \o <<<<"--compile-bytecode">>>>
               ELSE <<UV_EXECUTABLE, PIP_COMMAND, <<"install">>>>
                      \o args_list \o <<SYSTEM_FLAG, <<"--compile-bytecode">>>>
        r == run_command(cmd, TRUE, TRUE, Proc(cmd, rc, out, <<>>))
    IN  [list_of_args |-> args_list,
         calls |-> <<Call(cmd, TRUE, r)>>,
         result |-> r,
         printed |-> IF Raised(r) THEN <<>>
                     ELSE <<Msg("stdout", r.stdout, <<>>),
                            Msg("PackagesInstalled", <<>>, <<>>)>>,
         raised |-> IF Raised(r) THEN r.kind ELSE "none"]

\* PackageManager.uninstall
PackageManagerUninstall(path, args, rc, out) ==
    LET args_list == decode(args)
        cmd == IF path # <<>>
               THEN <<path, <<"-m">>, <<"uv">>, PIP_COMMAND, <<"uninstall">>>>
                      \o args_list
               ELSE <<UV_EXECUTABLE, PIP_COMMAND, <<"uninstall">>>>
                      \o args_list \o <<SYSTEM_FLAG>>
        r == run_command(cmd, TRUE, TRUE, Proc(cmd, rc, out, <<>>))
    IN  [list_of_args |-> args_list,
         calls |-> <<Call(cmd, TRUE, r)>>,
         result |-> r,
         printed |-> IF Raised(r) THEN <<>>
                     ELSE <<Msg("PackagesUninstalled", <<>>, <<>>)>>,
         raised |-> IF Raised(r) THEN r.kind ELSE "none"]

\* the update command line of one package, as update and update_all build it
UpdateCmdLine(path, package) ==
    IF path # <<>>
    THEN <<Strip(path), <<"-m">>, <<"uv">>, PIP_COMMAND, <<"install">>,
           package, UPGRADE_FLAG>>
    ELSE <<UV_EXECUTABLE, PIP_COMMAND, <<"install">>, package, UPGRADE_FLAG,
           SYSTEM_FLAG>>

\* PackageManager.update
PackageManagerUpdate(path, package_name, rc, out) ==
    LET cmd == UpdateCmdLine(path, package_name)
        r == run_command(cmd, TRUE, TRUE, Proc(cmd, rc, out, <<>>))
    IN  [calls |-> <<Call(cmd, TRUE, r)>>,
         result |-> r,
         printed |-> IF Raised(r) THEN <<>>
                     ELSE <<Msg("PackageUpdated", package_name, <<>>)>>,
         raised |-> IF Raised(r) THEN r.kind ELSE "none"]

\* the install command
Install ==
    /\ pc = "idle"
    /\ \E args \in Blobs, python \in Versions,
          rc1 \in RetCodes, out1 \in VenvOuts,
          rc2 \in RetCodes, out2 \in SystemOuts,
          rc \in RetCodes, out \in Outs :
         LET pm == PackageManagerInit(python, rc1, out1, rc2, out2)
             i == PackageManagerInstall(pm.value, args, rc, out)
         IN  /\ op' = "install"
             /\ inp' = [args |-> args, python |-> python]
             /\ python_path' = pm.value
             /\ IF pm.raised # "none"
                THEN /\ calls' = pm.calls
                     /\ printed' = pm.printed
                     /\ UNCHANGED <<list_of_args, result>>
                     /\ Finish(pm.raised)
                ELSE IF args = <<>>
                THEN \* args[0] on the empty string
                     /\ calls' = pm.calls
                     /\ printed' = pm.printed
                     /\ UNCHANGED <<list_of_args, result>>
                     /\ Finish("IndexError")
                ELSE IF args[1] = "*"
                THEN /\ calls' = pm.calls \o i.calls
                     /\ printed' = pm.printed \o i.printed
                     /\ list_of_args' = i.list_of_args
                     /\ result' = i.result
                     /\ Finish(IF i.raised # "none" THEN i.raised ELSE "ok")
                ELSE /\ calls' = pm.calls
                     /\ printed' = Append(pm.printed,
                                          Msg("ErrorMustStartWithStar", <<>>, <<>>))
                     /\ UNCHANGED <<list_of_args, result>>
                     /\ Finish("ok")
    /\ UNCHANGED <<tables, fs, net, environ, platform, onPath, packages, idx>>

\* the uninstall command
Uninstall ==
    /\ pc = "idle"
    /\ \E args \in Blobs, python \in Versions,
          rc1 \in RetCodes, out1 \in VenvOuts,
          rc2 \in RetCodes, out2 \in SystemOuts,
          rc \in RetCodes :
         LET pm == PackageManagerInit(python, rc1, out1, rc2, out2)
             u == PackageManagerUninstall(pm.value, args, rc, <<>>)
         IN  /\ op' = "uninstall"
             /\ inp' = [args |-> args, python |-> python]
             /\ python_path' = pm.value
             /\ IF pm.raised # "none"
                THEN /\ calls' = pm.calls
                     /\ printed' = pm.printed
                     /\ UNCHANGED <<list_of_args, result>>
                     /\ Finish(pm.raised)
                ELSE /\ calls' = pm.calls \o u.calls
                     /\ printed' = pm.printed \o u.printed
                     /\ list_of_args' = u.list_of_args
                     /\ result' = u.result
                     /\ Finish(IF u.raised # "none" THEN u.raised ELSE "ok")
    /\ UNCHANGED <<tables, fs, net, environ, platform, onPath, packages, idx>>

FreezeLines == {<<"a", "=", "=", "1">>, <<"b">>}
FreezeOuts ==
    {<<>>} \cup {Join(ls, "\n") \o <<"\n">> :
                   ls \in SeqsUpTo(FreezeLines, MaxPkgs) \ {<<>>}}
PackageNames == {<<>>, <<"a">>}

FreezeCmd == <<UV_EXECUTABLE, PIP_COMMAND, <<"freeze">>, SYSTEM_FLAG>>

\* packages = [line.split("==")[0] for line in stdout.strip().splitlines()]
FreezePackages(stdout) ==
    LET lines == SplitLines(Strip(stdout))
    IN  [i \in 1..Len(lines) |-> BeforeSep(lines[i])]

\* the update command; with --all it runs PackageManager.update_all up to
\* the first pass of its loop
Update ==
    /\ pc = "idle"
    /\ \E package_name \in PackageNames, all \in BOOLEAN, python \in Versions,
          rc1 \in RetCodes, out1 \in VenvOuts,
          rc2 \in RetCodes, out2 \in SystemOuts,
          rc \in RetCodes, out \in FreezeOuts :
         LET pm == PackageManagerInit(python, rc1, out1, rc2, out2)
             u == PackageManagerUpdate(pm.value, package_name, rc, <<>>)
             f == run_command(FreezeCmd, TRUE, TRUE,
                              Proc(FreezeCmd, rc, out, <<>>))
             pkgs == FreezePackages(f.stdout)
         IN  /\ op' = "update"
             /\ inp' = [package_name |-> package_name, all |-> all,
                        python |-> python,
                        freeze |-> IF package_name = <<>> /\ all
                                   THEN out ELSE <<>>]
             /\ python_path' = pm.value
             /\ UNCHANGED list_of_args
             /\ IF pm.raised # "none"
                THEN /\ calls' = pm.calls
                     /\ printed' = pm.printed
                     /\ UNCHANGED <<result, packages, idx>>
                     /\ Finish(pm.raised)
                ELSE IF package_name # <<>>
                THEN /\ calls' = pm.calls \o u.calls
                     /\ printed' = pm.printed \o u.printed
                     /\ result' = u.result
                     /\ UNCHANGED <<packages, idx>>
                     /\ Finish(IF u.raised # "none" THEN u.raised ELSE "ok")
                ELSE IF all
                THEN /\ calls' = Append(pm.calls, Call(FreezeCmd, TRUE, f))
                     /\ result' = f
                     /\ IF Raised(f)
                        THEN /\ printed' = pm.printed
                             /\ UNCHANGED <<packages, idx>>
                             /\ Finish(f.kind)
                        ELSE /\ packages' = pkgs
                             /\ idx' = 1
                             /\ IF pkgs = <<>>
                                THEN /\ printed' = Append(pm.printed,
                                            Msg("AllPackagesUpdated", <<>>, <<>>))
                                     /\ Finish("ok")
                                ELSE /\ printed' = pm.printed
                                     /\ pc' = "update_all"
                                     /\ UNCHANGED outcome
                ELSE /\ calls' = pm.calls
                     /\ printed' = Append(pm.printed,
                                          Msg("PleaseSpecifyPackage", <<>>, <<>>))
                     /\ UNCHANGED <<result, packages, idx>>
                     /\ Finish("ok")
    /\ UNCHANGED <<tables, fs, net, environ, platform, onPath>>

\* one pass of the loop of PackageManager.update_all; the last pass also
\* leaves the loop and prints the closing message
UpdateAllStep ==
    /\ pc = "update_all"
    /\ idx <= Len(packages)
    /\ \E rc \in RetCodes, err \in Errs :
         LET package == packages[idx]
             cmd == UpdateCmdLine(python_path, package)
             r == run_command(cmd, FALSE, TRUE, Proc(cmd, rc, <<>>, err))
             failed == IF r.returncode # 0
                       THEN <<Msg("ErrorUpdating", package, r.stderr)>>
                       ELSE <<>>
             closing == IF idx = Len(packages)
                        THEN <<Msg("AllPackagesUpdated", <<>>, <<>>)>>
                        ELSE <<>>
         IN  /\ calls' = Append(calls, Call(cmd, FALSE, r))
             /\ result' = r
             /\ IF Raised(r)
                THEN /\ UNCHANGED <<printed, idx>>
                     /\ Finish(r.kind)
                ELSE /\ printed' = printed \o failed \o closing
                     /\ idx' = idx + 1
                     /\ IF idx = Len(packages)
                        THEN Finish("ok")
                        ELSE UNCHANGED <<pc, outcome>>
    /\ UNCHANGED <<tables, fs, net, environ, platform, onPath, op, inp, python_path, list_of_args,
                   packages>>

----------------------------------------------------------------------------
(* build commands *)

TestPyPICmd == <<UV, <<"publish">>, <<"--repository">>, <<"testpypi">>, <<"dist/*">>>>
PyPICmd == <<UV, <<"publish">>, <<"dist/*">>>>

\* as BuildManagerPublish, but a failed upload to the test repository does
\* not end the method
BuildManagerPublish_continue(test_pypi, pypi, github, rcT, rcP) ==
    LET t == SubprocessRun(TestPyPICmd, TRUE, FALSE,
                           Proc(TestPyPICmd, rcT, <<>>, <<>>))
        p == SubprocessRun(PyPICmd, TRUE, FALSE,
                           Proc(PyPICmd, rcP, <<>>, <<>>))
        tCalls == IF test_pypi THEN <<Call(TestPyPICmd, TRUE, t)>> ELSE <<>>
        pCalls == IF pypi THEN <<Call(PyPICmd, TRUE, p)>> ELSE <<>>
        tPrinted == IF test_pypi /\ t.kind = "CalledProcessError"
                    THEN <<Msg("ErrorPublishingTestPyPI", <<>>, <<>>)>>
                    ELSE <<>>
        gPrinted == IF github
                    THEN <<Msg("GitHubNotImplemented", <<>>, <<>>)>>
                    ELSE <<>>
    IN  IF test_pypi /\ t.kind = "FileNotFoundError"
        THEN [calls |-> tCalls, printed |-> <<>>, raised |-> t.kind]
        ELSE IF pypi /\ p.kind = "FileNotFoundError"
        THEN [calls |-> tCalls \o pCalls, printed |-> tPrinted,
              raised |-> p.kind]
        ELSE IF pypi /\ p.kind = "CalledProcessError"
        THEN [calls |-> tCalls \o pCalls,
              printed |-> Append(tPrinted,
                                 Msg("ErrorPublishingPyPI", <<>>, <<>>)),
              raised |-> "none"]
        ELSE [calls |-> tCalls \o pCalls, printed |-> tPrinted \o gPrinted,
              raised |-> "none"]

\* as BuildManagerPublish, with the release branch run before the uploads
BuildManagerPublish_github_first(test_pypi, pypi, github, rcT, rcP) ==
    LET t == SubprocessRun(TestPyPICmd, TRUE, FALSE,
                           Proc(TestPyPICmd, rcT, <<>>, <<>>))
        p == SubprocessRun(PyPICmd, TRUE, FALSE,
                           Proc(PyPICmd, rcP, <<>>, <<>>))
        tCalls == IF test_pypi THEN <<Call(TestPyPICmd, TRUE, t)>> ELSE <<>>
        pCalls == IF pypi THEN <<Call(PyPICmd, TRUE, p)>> ELSE <<>>
        gPrinted == IF github
                    THEN <<Msg("GitHubNotImplemented", <<>>, <<>>)>>
                    ELSE <<>>
    IN  IF test_pypi /\ t.kind = "FileNotFoundError"
        THEN [calls |-> tCalls, printed |-> gPrinted, raised |-> t.kind]
        ELSE IF test_pypi /\ t.kind = "CalledProcessError"
        THEN [calls |-> tCalls,
              printed |-> Append(gPrinted,
                                 Msg("ErrorPublishingTestPyPI", <<>>, <<>>)),
              raised |-> "none"]
        ELSE IF pypi /\ p.kind = "FileNotFoundError"
        THEN [calls |-> tCalls \o pCalls, printed |-> gPrinted,
              raised |-> p.kind]
        ELSE IF pypi /\ p.kind = "CalledProcessError"
        THEN [calls |-> tCalls \o pCalls,
              printed |-> Append(gPrinted,
                                 Msg("ErrorPublishingPyPI", <<>>, <<>>)),
              raised |-> "none"]
        ELSE [calls |-> tCalls \o pCalls, printed |-> gPrinted,
              raised |-> "none"]

\* BuildManager.publish; rcT and rcP are the exit codes of the two uploads
BuildManagerPublish(test_pypi, pypi, github, rcT, rcP) ==
    LET t == SubprocessRun(TestPyPICmd, TRUE, FALSE,
                           Proc(TestPyPICmd, rcT, <<>>, <<>>))
        p == SubprocessRun(PyPICmd, TRUE, FALSE,
                           Proc(PyPICmd, rcP, <<>>, <<>>))
        tCalls == IF test_pypi THEN <<Call(TestPyPICmd, TRUE, t)>> ELSE <<>>
        pCalls == IF pypi THEN <<Call(PyPICmd, TRUE, p)>> ELSE <<>>
        gPrinted == IF github
                    THEN <<Msg("GitHubNotImplemented", <<>>, <<>>)>>
                    ELSE <<>>
    IN  IF test_pypi /\ t.kind = "FileNotFoundError"
        THEN [calls |-> tCalls, printed |-> <<>>, raised |-> t.kind]
        ELSE IF test_pypi /\ t.kind = "CalledProcessError"
        THEN [calls |-> tCalls,
              printed |-> <<Msg("ErrorPublishingTestPyPI", <<>>, <<>>)>>,
              raised |-> "none"]
        ELSE IF pypi /\ p.kind = "FileNotFoundError"
        THEN [calls |-> tCalls \o pCalls, printed |-> <<>>, raised |-> p.kind]
        ELSE IF pypi /\ p.kind = "CalledProcessError"
        THEN [calls |-> tCalls \o pCalls,
              printed |-> <<Msg("ErrorPublishingPyPI", <<>>, <<>>)>>,
              raised |-> "none"]
        ELSE [calls |-> tCalls \o pCalls, printed |-> gPrinted,
              raised |-> "none"]

\* BuildManager.publish called with any selection of its three targets
PublishTargets ==
    /\ pc = "idle"
    /\ \E test_pypi \in BOOLEAN, pypi \in BOOLEAN, github \in BOOLEAN,
          rcT \in RetCodes, rcP \in RetCodes :
         LET b == BuildManagerPublish(test_pypi, pypi, github, rcT, rcP)
         IN  /\ op' = "BuildManager.publish"
             /\ inp' = [test_pypi |-> test_pypi, pypi |-> pypi,
                        github |-> github, rcT |-> rcT, rcP |-> rcP]
             /\ calls' = b.calls
             /\ printed' = b.printed
             /\ Finish(IF b.raised # "none" THEN b.raised ELSE "ok")
    /\ UNCHANGED <<tables, fs, net, environ, platform, onPath, python_path, list_of_args, packages,
                   idx, result>>

\* the publish command
Publish ==
    /\ pc = "idle"
    /\ \E test_pypi \in BOOLEAN, pypi \in BOOLEAN, all \in BOOLEAN,
          rcT \in RetCodes, rcP \in RetCodes :
         LET b == BuildManagerPublish(test_pypi \/ all, pypi \/ all, FALSE,
                                      rcT, rcP)
         IN  /\ op' = "publish"
             /\ inp' = [test_pypi |-> test_pypi \/ all, pypi |-> pypi \/ all,
                        github |-> FALSE, rcT |-> rcT, rcP |-> rcP]
             /\ calls' = b.calls
             /\ printed' = b.printed
             /\ Finish(IF b.raised # "none" THEN b.raised ELSE "ok")
    /\ UNCHANGED <<tables, fs, net, environ, platform, onPath, python_path, list_of_args, packages,
                   idx, result>>

\* BuildManager.build
BuildManagerBuild(sdist, wheel, rc) ==
    LET cmd == <<UV, <<"build">>>>
                 \o (IF sdist THEN <<<<"--sdist">>>> ELSE <<>>)
                 \o (IF wheel THEN <<<<"--wheel">>>> ELSE <<>>)
        r == SubprocessRun(cmd, TRUE, FALSE, Proc(cmd, rc, <<>>, <<>>))
    IN  [calls |-> <<Call(cmd, TRUE, r)>>, result |-> r,
         raised |-> IF Raised(r) THEN r.kind ELSE "none"]

\* BuildManager.check
BuildManagerCheck(rc) ==
    LET cmd == <<UV, PIP_COMMAND, <<"check">>>>
        r == SubprocessRun(cmd, TRUE, FALSE, Proc(cmd, rc, <<>>, <<>>))
    IN  [calls |-> <<Call(cmd, TRUE, r)>>, result |-> r,
         raised |-> IF Raised(r) THEN r.kind ELSE "none"]

\* the build command
Build ==
    /\ pc = "idle"
    /\ \E sdist \in BOOLEAN, wheel \in BOOLEAN, rc \in RetCodes :
         LET b == BuildManagerBuild(sdist, wheel, rc)
         IN  /\ op' = "build"
             /\ inp' = [sdist |-> sdist, wheel |-> wheel]
             /\ calls' = b.calls
             /\ result' = b.result
             /\ printed' = <<>>
             /\ Finish(IF b.raised # "none" THEN b.raised ELSE "ok")
    /\ UNCHANGED <<tables, fs, net, environ, platform, onPath, python_path,
                   list_of_args, packages, idx>>

\* the check command
Check ==
    /\ pc = "idle"
    /\ \E rc \in RetCodes :
         LET c == BuildManagerCheck(rc)
         IN  /\ op' = "check"
             /\ inp' = [args |-> <<>>]
             /\ calls' = c.calls
             /\ result' = c.result
             /\ printed' = <<>>
             /\ Finish(IF c.raised # "none" THEN c.raised ELSE "ok")
    /\ UNCHANGED <<tables, fs, net, environ, platform, onPath, python_path,
                   list_of_args, packages, idx>>

----------------------------------------------------------------------------
(* Specification of the commands *)

Next ==
    \/ RunCommandCall
    \/ LocatePythonVersion
    \/ Install
    \/ Uninstall
    \/ Update
    \/ UpdateAllStep
    \/ PublishTargets
    \/ Publish
    \/ Build
    \/ Check

Spec == Init /\ [][Next]_vars

----------------------------------------------------------------------------
(* Specification of the argument decoder on its own *)

InitDecode ==
    /\ platform = "linux"
    /\ onPath = {}
    /\ pc = "idle"
    /\ op = "none"
    /\ inp \in [args : DecodeBlobs]
    /\ python_path = <<>>
    /\ list_of_args = <<>>
    /\ packages = <<>>
    /\ idx = 0
    /\ calls = <<>>
    /\ printed = <<>>
    /\ result = NoResult
    /\ outcome = "running"
    /\ Untouched

\* list_of_args = args.strip("*").replace("!", " ").split()
Decode ==
    /\ pc = "idle"
    /\ op' = "decode"
    /\ list_of_args' = decode(inp.args)
    /\ Finish("ok")
    /\ UNCHANGED <<tables, fs, net, environ, platform, onPath, inp, python_path, packages, idx, calls,
                   printed, result>>

SpecDecode == InitDecode /\ [][Decode]_vars

----------------------------------------------------------------------------
(* Properties *)

Captured(capture_output, s) == IF capture_output THEN s ELSE None

Has(seq, x) == \E i \in 1..Len(seq) : seq[i] = x

CountOf(seq, x) == Cardinality({i \in 1..Len(seq) : seq[i] = x})

RunCommandDone == pc = "done" /\ op = "run_command"

\* C1: an argv whose program name the search path does not resolve makes
\* run_command raise the executable-not-found failure with the guidance to
\* install the tool or add it to PATH attached, and nothing else, whatever
\* check and capture_output are.
C1_ExecutableNotFound ==
    (RunCommandDone /\ inp.cmd[1] \notin onPath) =>
        /\ result.kind = "FileNotFoundError"
        /\ result.notes = <<NoteNotFound>>
        /\ outcome = "FileNotFoundError"

C1_Witness ==
    /\ RunCommandDone
    /\ inp.cmd[1] \notin onPath
    /\ ~inp.check
    /\ ~inp.capture_output
    /\ result.kind = "FileNotFoundError"

\* C2: a process that exits non-zero while check is true makes run_command
\* raise the non-zero-exit failure carrying exactly the exit code and the
\* captured stdout and stderr of that process; no result is returned.
C2_NonZeroExitCarriesOutput ==
    (RunCommandDone /\ inp.proc.exists /\ inp.check
       /\ inp.proc.returncode # 0) =>
        /\ result.kind = "CalledProcessError"
        /\ result.returncode = inp.proc.returncode
        /\ result.stdout = Captured(inp.capture_output, inp.proc.out)
        /\ result.stderr = Captured(inp.capture_output, inp.proc.err)
        /\ outcome = "CalledProcessError"

C2_Witness ==
    /\ RunCommandDone
    /\ inp.proc.exists /\ inp.check /\ inp.capture_output
    /\ inp.proc.returncode # 0
    /\ inp.proc.out = <<"o">> /\ inp.proc.err = <<"e">>
    /\ result.kind = "CalledProcessError"
    /\ result.stderr = <<"e">>

\* C3: with check false and an executable that exists, run_command returns
\* a result holding the exit status and the captured stdout and stderr for
\* every exit code, zero or not, and raises nothing.
C3_NoCheckAlwaysReturns ==
    (RunCommandDone /\ inp.proc.exists /\ ~inp.check) =>
        /\ result.kind = "CompletedProcess"
        /\ result.returncode = inp.proc.returncode
        /\ result.stdout = Captured(inp.capture_output, inp.proc.out)
        /\ result.stderr = Captured(inp.capture_output, inp.proc.err)
        /\ outcome = "ok"

C3_Witness ==
    /\ RunCommandDone
    /\ inp.proc.exists /\ ~inp.check /\ inp.capture_output
    /\ inp.proc.returncode # 0
    /\ result.kind = "CompletedProcess"
    /\ result.returncode = inp.proc.returncode

\* tokens of a well-formed blob: non-empty, without "*", "!" or whitespace
Tokens == SeqsUpTo({"a", "b"}, 2) \ {<<>>}

\* "*" + t1 + "!" + t2 + ... + "!" + tn
Encode(ts) == <<"*">> \o Join(ts, "!")

DecodeDone == pc = "done" /\ op = "decode"

\* C4: decoding the well-formed blob "*" + t1 + "!" + ... + "!" + tn gives
\* exactly [t1, ..., tn], in order and with duplicates kept; decoding "*"
\* alone gives the empty list.
C4_DecodeWellFormed ==
    DecodeDone =>
        \A ts \in SeqsUpTo(Tokens, MaxTokens) :
            inp.args = Encode(ts) => list_of_args = ts

C4_Witness ==
    /\ DecodeDone
    /\ inp.args = <<"*", "a", "!", "a">>
    /\ list_of_args = << <<"a">>, <<"a">> >>

\* the decoding the specification describes: only the single leading marker
\* is removed
RemoveLeadingMarker(b) == IF b # <<>> /\ Head(b) = "*" THEN Tail(b) ELSE b
DecodeAsSpecified(b) == Split(Replace(RemoveLeadingMarker(b), "!", " "))

\* C5: for every blob, also with a trailing "*" or a "*" inside a token,
\* decode gives the list obtained by removing the single leading marker,
\* replacing every "!" by a space and splitting on whitespace runs (stated
\* for the blobs that begin with exactly one marker).
C5_DecodeRemovesOnlyLeadingMarker ==
    (DecodeDone /\ Len(inp.args) >= 1 /\ inp.args[1] = "*"
       /\ (Len(inp.args) >= 2 => inp.args[2] # "*")) =>
        list_of_args = DecodeAsSpecified(inp.args)

InstallDone == pc = "done" /\ op = "install"

IsInstallCall(c) == Has(c.argv, <<"install">>)

\* C6: an argument string that does not begin with "*", the empty string
\* included, makes install report the required format, build and run no
\* install command and raise nothing (stated for invocations that request
\* no interpreter version, where no lookup precedes the test of the marker).
C6_InstallRejectsUnmarked ==
    (InstallDone /\ inp.python = <<>>
       /\ (inp.args = <<>> \/ inp.args[1] # "*")) =>
        /\ Has(printed, Msg("ErrorMustStartWithStar", <<>>, <<>>))
        /\ \A i \in 1..Len(calls) : ~IsInstallCall(calls[i])
        /\ outcome = "ok"

IsUpdateCall(c) == Has(c.argv, UPGRADE_FLAG)

UpdateCalls == SelectSeq(calls, IsUpdateCall)

IsErrorUpdating(m) == m.msg = "ErrorUpdating"

UpdateAllMode == op = "update" /\ inp.package_name = <<>> /\ inp.all

\* update_all got its list of packages: the listing call returned
FreezeReturned ==
    \E i \in 1..Len(calls) :
        calls[i].argv = FreezeCmd /\ calls[i].kind = "CompletedProcess"

\* C7: update-all issues an update call for every package of the list,
\* whatever the outcome of the other updates, and reports each update that
\* exits non-zero once; the loop never ends early.
C7_UpdateAllAttemptsEveryPackage ==
    (pc = "done" /\ UpdateAllMode /\ FreezeReturned) =>
        /\ Len(UpdateCalls) = Len(packages)
        /\ \A i \in 1..Len(UpdateCalls) : Has(UpdateCalls[i].argv, packages[i])
        /\ Len(SelectSeq(printed, IsErrorUpdating))
             = Cardinality({i \in 1..Len(UpdateCalls) :
                              UpdateCalls[i].returncode # 0})

IsPublish == op \in {"publish", "BuildManager.publish"}

ItemFailed(c) == c.kind # "CompletedProcess" \/ c.returncode # 0

CallsOf(cmd) == SelectSeq(calls, LAMBDA c : c.argv = cmd)

\* every package of update-all was attempted and its update failed
AllItemsFailed ==
    /\ packages # <<>>
    /\ Len(UpdateCalls) = Len(packages)
    /\ \A i \in 1..Len(UpdateCalls) : ItemFailed(UpdateCalls[i])

\* a call update-all makes before its loop (a lookup, the listing) failed
PrecedingStepFailed ==
    \E i \in 1..Len(calls) :
        ~IsUpdateCall(calls[i]) /\ calls[i].kind # "CompletedProcess"

SuccessReported == Has(printed, Msg("AllPackagesUpdated", <<>>, <<>>))

\* C8: a batch operation ends with a failure outcome when every item of the
\* batch failed or the step required before the batch failed; when all
\* per-package updates fail, update-all does not end reporting overall
\* success (stated for update-all, the "if" half of the claim).
C8_BatchFailsWhenAllItemsFail ==
    (pc = "done" /\ UpdateAllMode /\ (AllItemsFailed \/ PrecedingStepFailed)) =>
        (exit_status # 0 /\ ~SuccessReported)

BothSelected == pc = "done" /\ IsPublish /\ inp.test_pypi /\ inp.pypi

GitHubSelected == pc = "done" /\ op = "BuildManager.publish" /\ inp.github

GitHubReported == Has(printed, Msg("GitHubNotImplemented", <<>>, <<>>))

----------------------------------------------------------------------------
(* project commands.  The repository holds two versions of ProjectManager:
   project_commands.py and project.py; version names the file. *)

ProjectVersions == {"project_commands", "project"}

\* ProjectManager.uv_path
ProjectUvPath == IF platform = "win32" THEN <<"uv.exe">> ELSE <<"uv">>

Template == <<"template">>
ErrorPage == <<"404: Not Found">>
TemplateUrl == <<"python_package_template.toml">>

\* what the init call leaves on disk: it may create the project directory
\* and a descriptor in it, and never removes what is there
AfterInit(f, makes_dir, makes_descriptor) ==
    LET d == IF f.dir = "absent" /\ makes_dir THEN "removable" ELSE f.dir
    IN  [dir |-> d,
         descriptor |-> IF f.descriptor = None /\ d # "absent" /\ makes_descriptor
                        THEN <<"uv">>
                        ELSE f.descriptor]

\* pyproject_path.write_text(text)
WriteDescriptor(f, text) ==
    IF f.dir = "absent"
    THEN [fs |-> f, raised |-> "FileNotFoundError"]
    ELSE [fs |-> [f EXCEPT !.descriptor = text], raised |-> "none"]

\* as create_project, without the test that the descriptor exists
create_project_always_fetch(version, f, args, rc, makes_dir, makes_descriptor, http) ==
    LET cmd == <<ProjectUvPath, <<"init">>>> \o decode(args)
        r == SubprocessRun(cmd, TRUE, version = "project",
                           Proc(cmd, rc, <<>>, <<>>))
        f1 == IF r.kind = "FileNotFoundError" THEN f
              ELSE AfterInit(f, makes_dir, makes_descriptor)
        w == WriteDescriptor(f1, IF http = "ok" THEN Template ELSE ErrorPage)
        base == [calls |-> <<Call(cmd, TRUE, r)>>, after_init |-> f1,
                 fs |-> f1, net |-> <<>>, raised |-> "none"]
    IN  IF Raised(r) THEN [base EXCEPT !.raised = r.kind]
        ELSE IF http = "connection_error"
        THEN [base EXCEPT !.net = <<TemplateUrl>>, !.raised = "ConnectionError"]
        ELSE [base EXCEPT !.net = <<TemplateUrl>>, !.fs = w.fs,
                          !.raised = w.raised]

\* ProjectManager.create_project; rc is the exit code of the init call and
\* http what the template request meets
create_project(version, f, args, rc, makes_dir, makes_descriptor, http) ==
    LET cmd == <<ProjectUvPath, <<"init">>>> \o decode(args)
        r == SubprocessRun(cmd, TRUE, version = "project",
                           Proc(cmd, rc, <<>>, <<>>))
        f1 == IF r.kind = "FileNotFoundError" THEN f
              ELSE AfterInit(f, makes_dir, makes_descriptor)
        w == WriteDescriptor(f1, IF http = "ok" THEN Template ELSE ErrorPage)
        base == [calls |-> <<Call(cmd, TRUE, r)>>, after_init |-> f1,
                 fs |-> f1, net |-> <<>>, raised |-> "none"]
    IN  IF r.kind = "FileNotFoundError"
        THEN [base EXCEPT !.raised = r.kind]
        ELSE IF r.kind = "CalledProcessError"
        THEN [base EXCEPT !.raised = IF version = "project"
                                     THEN "RuntimeError" ELSE r.kind]
        ELSE IF f1.descriptor # None
        THEN base
        ELSE IF http = "connection_error"
        THEN [base EXCEPT !.net = <<TemplateUrl>>,
                          !.raised = IF version = "project"
                                     THEN "RuntimeError" ELSE "ConnectionError"]
        ELSE IF http = "non2xx" /\ version = "project"
        THEN \* response.raise_for_status()
             [base EXCEPT !.net = <<TemplateUrl>>, !.raised = "RuntimeError"]
        ELSE [base EXCEPT !.net = <<TemplateUrl>>, !.fs = w.fs,
                          !.raised = w.raised]

\* as delete_project, with the errors of rmtree not ignored
delete_project_raise(f, emptied) ==
    IF f.dir = "absent" THEN [fs |-> f, raised |-> "none"]
    ELSE IF f.dir = "removable"
    THEN [fs |-> [dir |-> "absent", descriptor |-> None], raised |-> "none"]
    ELSE [fs |-> IF emptied THEN [f EXCEPT !.descriptor = None] ELSE f,
          raised |-> "OSError"]

\* ProjectManager.delete_project; a directory that cannot be removed stays,
\* emptied or not
delete_project(f, emptied) ==
    IF f.dir = "absent" THEN [fs |-> f, raised |-> "none"]
    ELSE IF f.dir = "removable"
    THEN [fs |-> [dir |-> "absent", descriptor |-> None], raised |-> "none"]
    ELSE [fs |-> IF emptied THEN [f EXCEPT !.descriptor = None] ELSE f,
          raised |-> "none"]

HttpAnswers == {"ok", "non2xx", "connection_error"}

\* ProjectManager(project_dir).create_project(args) with a string args
CreateProject ==
    /\ pc = "idle"
    /\ \E version \in ProjectVersions, args \in Blobs, rc \in RetCodes,
          makes_dir \in BOOLEAN, makes_descriptor \in BOOLEAN,
          http \in HttpAnswers :
         LET c == create_project(version, fs, args, rc, makes_dir,
                                 makes_descriptor, http)
         IN  /\ op' = "create_project"
             /\ inp' = [version |-> version, args |-> args, rc |-> rc,
                        before |-> fs, after_init |-> c.after_init,
                        http |-> http]
             /\ list_of_args' = decode(args)
             /\ calls' = c.calls
             /\ fs' = c.fs
             /\ net' = c.net
             /\ Finish(IF c.raised # "none" THEN c.raised ELSE "ok")
    /\ UNCHANGED <<tables, environ, platform, onPath, python_path, packages,
                   idx, printed, result>>

\* the create command: click hands args over as a tuple (nargs=-1), and
\* create_project calls args.strip on it
Create ==
    /\ pc = "idle"
    /\ \E n \in 1..MaxTokens :
         /\ op' = "create"
         /\ inp' = [nargs |-> n, before |-> fs]
    /\ Finish("AttributeError")
    /\ UNCHANGED <<tables, fs, net, environ, platform, onPath, python_path,
                   list_of_args, packages, idx, calls, printed, result>>

\* the delete command
Delete ==
    /\ pc = "idle"
    /\ \E emptied \in BOOLEAN :
         LET d == delete_project(fs, emptied)
         IN  /\ op' = "delete"
             /\ inp' = [before |-> fs]
             /\ fs' = d.fs
             /\ Finish(IF d.raised # "none" THEN d.raised ELSE "ok")
    /\ UNCHANGED <<tables, net, environ, platform, onPath, python_path,
                   list_of_args, packages, idx, calls, printed, result>>

ProjectFiles ==
    {[dir |-> "absent", descriptor |-> None]}
      \cup [dir : {"removable", "unremovable"}, descriptor : {None, <<"old">>}]

InitProject ==
    /\ platform \in {"win32", "linux"}
    /\ onPath \in SUBSET {<<"uv.exe">>, <<"uv">>}
    /\ pc = "idle"
    /\ op = "none"
    /\ inp = [args |-> <<>>]
    /\ python_path = <<>>
    /\ list_of_args = <<>>
    /\ packages = <<>>
    /\ idx = 0
    /\ calls = <<>>
    /\ printed = <<>>
    /\ result = NoResult
    /\ outcome = "running"
    /\ tables = <<>>
    /\ fs \in ProjectFiles
    /\ net = <<>>
    /\ environ = NoEnviron

NextProject ==
    \/ CreateProject
    \/ Create
    \/ Delete

SpecProject == InitProject /\ [][NextProject]_vars

CreateProjectDone == pc = "done" /\ op = "create_project"

InitReturned == calls[1].kind = "CompletedProcess"

\* C11: when the descriptor file exists after the init call, project
\* creation makes no network request and leaves the descriptor unchanged;
\* the template is requested and written only when the file is absent.
C11_NoFetchWhenDescriptorExists ==
    CreateProjectDone =>
        /\ (InitReturned /\ inp.after_init.descriptor # None) =>
             (net = <<>> /\ fs = inp.after_init /\ outcome = "ok")
        /\ net # <<>> => (InitReturned /\ inp.after_init.descriptor = None)
        /\ fs.descriptor # inp.after_init.descriptor =>
             (net = <<TemplateUrl>> /\ inp.after_init.descriptor = None)

C11_Witness ==
    /\ CreateProjectDone
    /\ InitReturned
    /\ inp.before.descriptor = None
    /\ inp.after_init.descriptor = <<"uv">>
    /\ net = <<>>
    /\ fs.descriptor = <<"uv">>

\* C12: project creation fails as a whole when the init call exits non-zero
\* (no network request, no descriptor written) and when the template request
\* fails or is answered with a non-2xx status (the response body is not
\* written to the descriptor); what the init call created is not rolled back.
C12_CreateFailsHard ==
    (CreateProjectDone /\ calls[1].kind # "FileNotFoundError") =>
        /\ inp.rc # 0 =>
             (outcome # "ok" /\ net = <<>> /\ fs = inp.after_init)
        /\ (net # <<>> /\ inp.http # "ok") =>
             (outcome # "ok" /\ fs = inp.after_init)

\* C13: project deletion succeeds and raises nothing in every state of the
\* file system: an absent directory changes nothing, a directory that can
\* be removed is gone afterwards.
C13_DeleteAlwaysSucceeds ==
    (pc = "done" /\ op = "delete") =>
        /\ outcome = "ok"
        /\ inp.before.dir = "absent" => fs = inp.before
        /\ inp.before.dir = "removable" =>
             fs = [dir |-> "absent", descriptor |-> None]

C13_Witness ==
    /\ pc = "done" /\ op = "delete"
    /\ inp.before = [dir |-> "removable", descriptor |-> <<"old">>]
    /\ fs.dir = "absent"
    /\ outcome = "ok"

----------------------------------------------------------------------------
(* tabular reports of the package commands *)

MaxLines == 4

\* line.split() of every line of the stripped output
PartsOfLines(stdout) ==
    LET ls == SplitLines(Strip(stdout))
    IN  [i \in 1..Len(ls) |-> Split(ls[i])]

\* as ReportRows, with three lines skipped
ReportRows_skip_three(stdout, three_only) ==
    LET ps == PartsOfLines(stdout)
        rest == [i \in 1..(IF Len(ps) > 3 THEN Len(ps) - 3 ELSE 0) |-> ps[i + 3]]
    IN  IF three_only THEN SelectSeq(rest, LAMBDA parts : Len(parts) = 3)
        ELSE rest

\* the rows added to the table: stdout.strip().splitlines()[2:], each line
\* split on whitespace; three_only is the test len(parts) == 3
ReportRows(stdout, three_only) ==
    LET ps == PartsOfLines(stdout)
        rest == [i \in 1..(IF Len(ps) > 2 THEN Len(ps) - 2 ELSE 0) |-> ps[i + 2]]
    IN  IF three_only THEN SelectSeq(rest, LAMBDA parts : Len(parts) = 3)
        ELSE rest

OutdatedCmd(package_name) ==
    <<UV_EXECUTABLE, PIP_COMMAND, <<"list">>, <<"--outdated">>, SYSTEM_FLAG>>
      \o (IF package_name # <<>> THEN <<package_name>> ELSE <<>>)

ExternalCmd == <<UV_EXECUTABLE, PIP_COMMAND, <<"list">>, SYSTEM_FLAG>>

\* the body shared by the two reports: run the command, then a table when
\* stdout is not empty and a message when it is
Report(cmd, title, nothing, three_only, rc, out) ==
    LET r == run_command(cmd, TRUE, TRUE, Proc(cmd, rc, out, <<>>))
    IN  IF Raised(r)
        THEN [raised |-> r.kind, calls |-> <<Call(cmd, TRUE, r)>>,
              tables |-> <<>>, printed |-> <<>>]
        ELSE IF r.stdout # <<>>
        THEN [raised |-> "none", calls |-> <<Call(cmd, TRUE, r)>>,
              tables |-> <<[title |-> title,
                            rows |-> ReportRows(r.stdout, three_only)]>>,
              printed |-> <<>>]
        ELSE [raised |-> "none", calls |-> <<Call(cmd, TRUE, r)>>,
              tables |-> <<>>,
              printed |-> <<Msg(nothing, <<>>, <<>>)>>]

\* as check_updates, with every line added as a row
check_updates_no_filter(package_name, rc, out) ==
    Report(OutdatedCmd(package_name), "Outdated Packages",
           "NoOutdatedPackagesFound", FALSE, rc, out)

\* PackageManager.check_updates
check_updates(package_name, rc, out) ==
    Report(OutdatedCmd(package_name), "Outdated Packages",
           "NoOutdatedPackagesFound", TRUE, rc, out)

\* PackageManager.list_external_modules
list_external_modules(rc, out) ==
    Report(ExternalCmd, "External Modules", "NoExternalModulesFound",
           FALSE, rc, out)

\* the lines a report command may print
ReportLineSet ==
    {<<>>,
     <<"a", " ", "b">>,
     <<"a", " ", "b", " ", "c">>,
     <<" ", "x", " ", " ", "y", " ", "z", " ">>,
     <<"a", " ", "b", " ", "c", " ", "d">>}

ReportTexts ==
    {Join(ls, "\n") : ls \in SeqsUpTo(ReportLineSet, MaxLines)}
      \cup {Join(ls, "\n") \o <<"\n">> : ls \in SeqsUpTo(ReportLineSet, MaxLines - 1)}

CheckUpdates ==
    /\ pc = "idle"
    /\ \E package_name \in {<<>>, <<"a">>}, rc \in RetCodes, out \in ReportTexts :
         LET c == check_updates(package_name, rc, out)
         IN  /\ op' = "check_updates"
             /\ inp' = [package_name |-> package_name, rc |-> rc, stdout |-> out]
             /\ calls' = c.calls
             /\ tables' = c.tables
             /\ printed' = c.printed
             /\ Finish(IF c.raised # "none" THEN c.raised ELSE "ok")
    /\ UNCHANGED <<fs, net, environ, platform, onPath, python_path,
                   list_of_args, packages, idx, result>>

ListExternalModules ==
    /\ pc = "idle"
    /\ \E rc \in RetCodes, out \in ReportTexts :
         LET c == list_external_modules(rc, out)
         IN  /\ op' = "list_external_modules"
             /\ inp' = [package_name |-> <<>>, rc |-> rc, stdout |-> out]
             /\ calls' = c.calls
             /\ tables' = c.tables
             /\ printed' = c.printed
             /\ Finish(IF c.raised # "none" THEN c.raised ELSE "ok")
    /\ UNCHANGED <<fs, net, environ, platform, onPath, python_path,
                   list_of_args, packages, idx, result>>

InitFormat ==
    /\ platform \in {"win32", "linux"}
    /\ onPath \in SUBSET {UV_EXECUTABLE}
    /\ pc = "idle"
    /\ op = "none"
    /\ inp = [args |-> <<>>]
    /\ python_path = <<>>
    /\ list_of_args = <<>>
    /\ packages = <<>>
    /\ idx = 0
    /\ calls = <<>>
    /\ printed = <<>>
    /\ result = NoResult
    /\ outcome = "running"
    /\ Untouched

NextFormat ==
    \/ CheckUpdates
    \/ ListExternalModules

SpecFormat == InitFormat /\ [][NextFormat]_vars

ReportDone ==
    /\ pc = "done"
    /\ op \in {"check_updates", "list_external_modules"}
    /\ calls[1].kind = "CompletedProcess"

\* the lines of the stripped output after the first two
RECURSIVE RestLines(_, _)
RestLines(ls, skip) ==
    IF ls = <<>> \/ skip = 0 THEN ls ELSE RestLines(Tail(ls), skip - 1)

\* the lines of ls with exactly three whitespace-separated tokens, as rows
RECURSIVE ThreeTokenRows(_)
ThreeTokenRows(ls) ==
    IF ls = <<>> THEN <<>>
    ELSE (IF Len(Split(Head(ls))) = 3 THEN <<Split(Head(ls))>> ELSE <<>>)
           \o ThreeTokenRows(Tail(ls))

RECURSIVE AllRows(_)
AllRows(ls) ==
    IF ls = <<>> THEN <<>> ELSE <<Split(Head(ls))>> \o AllRows(Tail(ls))

DataLines == RestLines(SplitLines(Strip(inp.stdout)), 2)

NothingFound ==
    /\ tables = <<>>
    /\ Len(printed) = 1
    /\ printed[1].msg \in {"NoOutdatedPackagesFound", "NoExternalModulesFound"}

HeaderOnly ==
    LET ls == SplitLines(inp.stdout)
    IN  Len(ls) = 2 /\ Len(Split(ls[1])) = 3 /\ Len(Split(ls[2])) = 3

\* C15: when the output holds the two header lines only, the report has no
\* rows and the caller reports that nothing was found, as it does for an
\* empty output: no table is printed and nothing fails.
C15_HeaderOnlyIsNothingFound ==
    (ReportDone /\ HeaderOnly) =>
        /\ outcome = "ok"
        /\ NothingFound

\* re-serialization of rows: two header lines, then the rows joined by blanks
Serialize(rows) ==
    LET header == <<"P", " ", "V", " ", "L">>
        lines == <<header, header>> \o [i \in 1..Len(rows) |-> Join(rows[i], " ")]
    IN  Join(lines, "\n")

\* C16: formatting is idempotent over its own output: the rows of a report,
\* written again as two header lines followed by the rows joined by blanks
\* and formatted again, are the same rows.
C16_FormatIdempotent ==
    (ReportDone /\ tables # <<>>) =>
        ReportRows(Serialize(tables[1].rows), op = "check_updates")
          = tables[1].rows

C16_Witness ==
    /\ ReportDone
    /\ tables # <<>>
    /\ Len(tables[1].rows) = 2
    /\ tables[1].rows[1] # tables[1].rows[2]

----------------------------------------------------------------------------
(* interpreter resolution *)

LocateDone == pc = "done" /\ op = "locate_python_version"

FindCmd == <<UV_EXECUTABLE, <<"python">>, <<"find">>, inp.target_version>>

\* C17: when the tool is installed, interpreter resolution issues exactly two
\* lookups, the one scoped to the virtual environment and then the
\* system-wide one, and returns the lines of the first followed by the lines
\* of the second; it raises nothing when a lookup exits non-zero or prints
\* nothing, and with no line at all it reports that no version was found and
\* returns the empty result.
C17_TwoLookupsInOrder ==
    (LocateDone /\ UV_EXECUTABLE \in onPath) =>
        /\ outcome = "ok"
        /\ Len(calls) = 2
        /\ calls[1].argv = FindCmd
        /\ calls[2].argv = FindCmd \o <<SYSTEM_FLAG>>
        /\ SplitLines(python_path) = SplitLines(inp.out1) \o SplitLines(inp.out2)
        /\ (inp.out1 = <<>> /\ inp.out2 = <<>>) =>
             /\ python_path = <<>>
             /\ printed = <<Msg("NoPythonVersionsFound", inp.target_version, <<>>)>>
        /\ (inp.out1 # <<>> \/ inp.out2 # <<>>) => printed = <<>>

C17_Witness ==
    /\ LocateDone
    /\ UV_EXECUTABLE \in onPath
    /\ inp.rc1 # 0
    /\ inp.out1 # <<>>
    /\ inp.out2 # <<>>
    /\ python_path = P1 \o <<"\n">> \o P2
    /\ outcome = "ok"

IsOperationCall(c) ==
    \E i \in 1..Len(c.argv) : c.argv[i] \in {<<"install">>, <<"uninstall">>}

NamedOperationDone ==
    /\ pc = "done"
    /\ op \in {"install", "uninstall", "update"}
    /\ ~UpdateAllMode

HasFlag(c, flag) == \E i \in 1..Len(c.argv) : c.argv[i] = flag

\* C18: install, uninstall and update of a named package run, when an
\* interpreter was resolved, a command whose first token is one resolved
\* interpreter path and that carries no system flag; with no interpreter
\* resolved they run the system-wide command with the system flag.
C18_OperationTargetsInterpreter ==
    NamedOperationDone =>
        \A k \in 1..Len(calls) :
            IsOperationCall(calls[k]) =>
                IF python_path # <<>>
                THEN /\ calls[k].argv[1] \in {P1, P2}
                     /\ ~HasFlag(calls[k], SYSTEM_FLAG)
                ELSE /\ calls[k].argv[1] = UV_EXECUTABLE
                     /\ HasFlag(calls[k], SYSTEM_FLAG)

----------------------------------------------------------------------------
(* the list commands *)

WhichCmd ==
    IF platform = "win32" THEN <<<<"where.exe">>, <<"python">>>>
    ELSE <<<<"which">>, <<"-a">>, <<"python3">>>>

\* f"venv{version.strip('Python'):>9}"
VenvVersion(version) ==
    LET v == StripChars(version, {"P", "y", "t", "h", "o", "n"})
        pad == IF Len(v) < 9 THEN [i \in 1..(9 - Len(v)) |-> " "] ELSE <<>>
    IN  <<"v", "e", "n", "v">> \o pad \o v

\* "venv" in path
RECURSIVE ContainsVenv(_)
ContainsVenv(path) ==
    IF path = <<>> THEN FALSE
    ELSE Head(path) \in {"venv", "/venv/python"} \/ ContainsVenv(Tail(path))

\* the rows of the table of interpreters; every path answers --version
\* with rcv and outv
RECURSIVE VersionRows(_, _, _, _)
VersionRows(paths, rcv, outv, acc) ==
    IF paths = <<>> \/ acc.raised # "none" THEN acc
    ELSE LET path == Head(paths)
             cmd == <<Strip(path), <<"--version">>>>
             r == run_command(cmd, TRUE, TRUE, Proc(cmd, rcv, outv, <<>>))
             version == Strip(r.stdout)
         IN  VersionRows(Tail(paths), rcv, outv,
               [raised |-> IF Raised(r) THEN r.kind ELSE "none",
                calls |-> Append(acc.calls, Call(cmd, TRUE, r)),
                rows |-> IF Raised(r) THEN acc.rows
                         ELSE Append(acc.rows,
                                <<IF ContainsVenv(path) THEN VenvVersion(version)
                                  ELSE version, path>>)])

\* PackageManager.list_python_versions
list_python_versions(rcw, outw, rcv, outv) ==
    LET r == run_command(WhichCmd, TRUE, TRUE, Proc(WhichCmd, rcw, outw, <<>>))
        v == VersionRows(SplitLines(Strip(r.stdout)), rcv, outv,
                         [raised |-> "none", calls |-> <<>>, rows |-> <<>>])
    IN  IF Raised(r)
        THEN [raised |-> r.kind, calls |-> <<Call(WhichCmd, TRUE, r)>>,
              tables |-> <<>>, printed |-> <<>>]
        ELSE [raised |-> v.raised, calls |-> <<Call(WhichCmd, TRUE, r)>> \o v.calls,
              tables |-> IF v.raised # "none" THEN <<>>
                         ELSE <<[title |-> "Python Versions", rows |-> v.rows]>>,
              printed |-> <<>>]

\* sys.builtin_module_names
BuiltinModuleNames == <<<<"_", "a", "b", "c">>, <<"s", "y", "s">>, <<"t", "i", "m", "e">>>>

\* PackageManager.list_internal_modules
list_internal_modules ==
    [raised |-> "none", calls |-> <<>>,
     tables |-> <<[title |-> "Internal Modules",
                   rows |-> LET ms == SelectSeq(BuiltinModuleNames,
                                       LAMBDA m : \A i \in 1..Len(m) : m[i] # "_")
                            IN  [i \in 1..Len(ms) |-> <<ms[i]>>]]>>,
     printed |-> <<>>]

PackageReport(name, env) ==
    IF name = "python"
    THEN list_python_versions(env.rcw, env.outw, env.rcv, env.outv)
    ELSE IF name = "internal" THEN list_internal_modules
    ELSE IF name = "external" THEN list_external_modules(env.rce, env.oute)
    ELSE check_updates(<<>>, env.rco, env.outo)

\* one report method of VenvManager: heading, then the uv command
VenvReport(name, env) ==
    LET sub == IF name = "packages" THEN <<<<"freeze">>>>
               ELSE IF name = "deps" THEN <<<<"tree">>>>
               ELSE <<<<"list">>, <<"--outdated">>>>
        heading == IF name = "packages" THEN "InstalledPackages"
                   ELSE IF name = "deps" THEN "DependenciesTree"
                   ELSE "AvailableUpdates"
        rc == IF name = "packages" THEN env.rcf
              ELSE IF name = "deps" THEN env.rct ELSE env.rco
        cmd == <<UV, PIP_COMMAND>> \o sub
        r == SubprocessRun(cmd, TRUE, name = "outdated",
                           Proc(cmd, rc, env.outo, <<>>))
    IN  [raised |-> IF Raised(r) THEN r.kind ELSE "none",
         calls |-> <<Call(cmd, TRUE, r)>>,
         tables |-> <<>>,
         printed |-> <<Msg(heading, <<>>, <<>>)>>
                       \o (IF name = "outdated" /\ ~Raised(r)
                           THEN <<Msg("stdout", r.stdout, <<>>)>> ELSE <<>>)]

NoReport == [raised |-> "none", calls |-> <<>>, tables |-> <<>>, printed |-> <<>>]

\* the reports of names, one after the other, until one raises
RECURSIVE RunReports(_, _, _, _)
RunReports(names, env, venv, acc) ==
    IF names = <<>> \/ acc.raised # "none" THEN acc
    ELSE LET r == IF venv THEN VenvReport(Head(names), env)
                  ELSE PackageReport(Head(names), env)
         IN  RunReports(Tail(names), env, venv,
               [raised |-> r.raised, calls |-> acc.calls \o r.calls,
                tables |-> acc.tables \o r.tables,
                printed |-> acc.printed \o r.printed])

Opt(flag, name) == IF flag THEN <<name>> ELSE <<>>

\* the reports the list command of the package group calls, in its order
PackageListReports(f) ==
    Opt(f.python, "python") \o Opt(f.internal, "internal")
      \o Opt(f.external, "external") \o Opt(f.outdated, "outdated")
      \o (IF f.all THEN <<"python", "internal", "external", "outdated">>
          ELSE <<>>)

\* the reports the list command of the venv group calls
VenvListReports(f) ==
    IF f.packages THEN <<"packages">>
    ELSE IF f.deps THEN <<"deps">>
    ELSE IF f.outdated THEN <<"outdated">>
    ELSE IF f.all THEN <<"packages", "deps", "outdated">>
    ELSE <<>>

ListOuts == {<<>>, <<"h", "\n", "h", "\n", "a", " ", "b", " ", "c">>}
WhichOuts == {<<>>} \cup (IF P2 \in onPath THEN {P2 \o <<"\n">>} ELSE {})
VersionOuts == {<<"P", "y", "t", "h", "o", "n", " ", "3">>}

\* the list command of the package group
PackageList ==
    /\ pc = "idle"
    /\ \E f \in [python : BOOLEAN, internal : BOOLEAN, external : BOOLEAN,
                 outdated : BOOLEAN, all : BOOLEAN],
          env \in [rcw : RetCodes, outw : WhichOuts, rcv : RetCodes,
                   outv : VersionOuts, rce : RetCodes, oute : ListOuts,
                   rco : RetCodes, outo : ListOuts] :
         LET l == RunReports(PackageListReports(f), env, FALSE, NoReport)
         IN  /\ op' = "package list"
             /\ inp' = f
             /\ IF PackageListReports(f) = <<>>
                THEN /\ printed' = <<Msg("SpecifyAtLeastOneOption", <<>>, <<>>)>>
                     /\ UNCHANGED <<calls, tables>>
                     /\ Finish("ok")
                ELSE /\ printed' = l.printed
                     /\ calls' = l.calls
                     /\ tables' = l.tables
                     /\ Finish(IF l.raised # "none" THEN l.raised ELSE "ok")
    /\ UNCHANGED <<fs, net, environ, platform, onPath, python_path,
                   list_of_args, packages, idx, result>>

\* the list command of the venv group
VenvList ==
    /\ pc = "idle"
    /\ \E f \in [packages : BOOLEAN, deps : BOOLEAN, outdated : BOOLEAN,
                 all : BOOLEAN],
          env \in [rcf : RetCodes, rct : RetCodes, rco : RetCodes,
                   outo : ListOuts] :
         LET l == RunReports(VenvListReports(f), env, TRUE, NoReport)
         IN  /\ op' = "venv list"
             /\ inp' = f
             /\ printed' = l.printed
             /\ calls' = l.calls
             /\ tables' = l.tables
             /\ Finish(IF l.raised # "none" THEN l.raised ELSE "ok")
    /\ UNCHANGED <<fs, net, environ, platform, onPath, python_path,
                   list_of_args, packages, idx, result>>

InitList ==
    /\ platform \in {"win32", "linux"}
    /\ onPath \in SUBSET {UV_EXECUTABLE, UV, WhichCmd[1], P2}
    /\ pc = "idle"
    /\ op = "none"
    /\ inp = [args |-> <<>>]
    /\ python_path = <<>>
    /\ list_of_args = <<>>
    /\ packages = <<>>
    /\ idx = 0
    /\ calls = <<>>
    /\ printed = <<>>
    /\ result = NoResult
    /\ outcome = "running"
    /\ Untouched

NextList ==
    \/ PackageList
    \/ VenvList

SpecList == InitList /\ [][NextList]_vars

ListDone == pc = "done" /\ op \in {"package list", "venv list"}

\* the command of a report
ReportCmd(name) ==
    IF op = "venv list"
    THEN <<UV, PIP_COMMAND>>
           \o (IF name = "packages" THEN <<<<"freeze">>>>
               ELSE IF name = "deps" THEN <<<<"tree">>>>
               ELSE <<<<"list">>, <<"--outdated">>>>)
    ELSE IF name = "python" THEN WhichCmd
    ELSE IF name = "external" THEN ExternalCmd
    ELSE OutdatedCmd(<<>>)

\* how many times a report ran: the calls of its command, or for the
\* report of internal modules, which calls nothing, its tables
TimesRun(name) ==
    IF name = "internal"
    THEN Len(SelectSeq(tables, LAMBDA t : t.title = "Internal Modules"))
    ELSE Len(SelectSeq(calls, LAMBDA c : c.argv = ReportCmd(name)))

Requested(name) ==
    /\ name \in DOMAIN inp
    /\ inp[name]

\* C19: when several list sub-options are requested in one invocation,
\* every requested report runs, each exactly once, and a report with an
\* empty result does not stop the following ones.  Stated for the
\* invocations that name their reports one by one (without --all) and in
\* which no command fails.
C19_EachRequestedReportRunsOnce ==
    (ListDone /\ ~inp.all /\ outcome = "ok") =>
        \A name \in {"python", "internal", "external", "outdated",
                     "packages", "deps"} :
            Requested(name) => TimesRun(name) = 1

----------------------------------------------------------------------------
(* virtual environments: activate and deactivate *)

MaxPathEntries == 2

\* os.pathsep, the separator of path components, VenvManager.bin_dir
PathSep == IF platform = "win32" THEN ";" ELSE ":"
DirSep == IF platform = "win32" THEN "\\" ELSE "/"
BinDir == IF platform = "win32" THEN "Scripts" ELSE "bin"

DefaultVenvPath == <<".venv">>

\* VenvManager.__init__(python_version, venv_path)
VenvManager(python_version, venv_path) ==
    [python_version |-> python_version, venv_path |-> venv_path,
     bin_dir |-> BinDir, uv_path |-> UV]

\* str(venv_path / bin_dir)
BinDirOf(venv_path) == venv_path \o <<DirSep, BinDir>>

\* s.split(sep)
RECURSIVE SplitSepFrom(_, _, _)
SplitSepFrom(s, sep, cur) ==
    IF s = <<>> THEN <<cur>>
    ELSE IF Head(s) = sep
         THEN <<cur>> \o SplitSepFrom(Tail(s), sep, <<>>)
         ELSE SplitSepFrom(Tail(s), sep, Append(cur, Head(s)))

SplitSep(s, sep) == SplitSepFrom(s, sep, <<>>)

\* p.startswith(prefix)
StartsWith(p, prefix) ==
    /\ Len(p) >= Len(prefix)
    /\ SubSeq(p, 1, Len(prefix)) = prefix

\* VenvManager.activate
activate(vm, env) ==
    LET e1 == [env EXCEPT !.VIRTUAL_ENV = vm.venv_path]
    IN  IF env.PATH = None
        THEN [environ |-> e1, raised |-> "KeyError", printed |-> <<>>]
        ELSE [environ |-> [e1 EXCEPT !.PATH =
                             Join(<<BinDirOf(vm.venv_path), env.PATH>>, PathSep)],
              raised |-> "none",
              printed |-> <<Msg("VirtualEnvironmentActivated", <<>>, <<>>)>>]

\* as deactivate, removing only the entry equal to the executables directory
deactivate_exact(vm, env) ==
    IF env.VIRTUAL_ENV # None
    THEN IF env.PATH = None
         THEN [environ |-> env, raised |-> "KeyError", printed |-> <<>>]
         ELSE [environ |->
                 [VIRTUAL_ENV |-> None,
                  PATH |-> Join(SelectSeq(SplitSep(env.PATH, PathSep),
                                  LAMBDA p : p # BinDirOf(env.VIRTUAL_ENV)),
                                PathSep)],
               raised |-> "none",
               printed |-> <<Msg("VirtualEnvironmentDeactivated", <<>>, <<>>)>>]
    ELSE [environ |-> env, raised |-> "none",
          printed |-> <<Msg("VirtualEnvironmentDeactivated", <<>>, <<>>)>>]

\* VenvManager.deactivate
deactivate(vm, env) ==
    IF env.VIRTUAL_ENV # None
    THEN IF env.PATH = None
         THEN [environ |-> env, raised |-> "KeyError", printed |-> <<>>]
         ELSE [environ |->
                 [VIRTUAL_ENV |-> None,
                  PATH |-> Join(SelectSeq(SplitSep(env.PATH, PathSep),
                                  LAMBDA p : ~StartsWith(p, env.VIRTUAL_ENV)),
                                PathSep)],
               raised |-> "none",
               printed |-> <<Msg("VirtualEnvironmentDeactivated", <<>>, <<>>)>>]
    ELSE [environ |-> env, raised |-> "none",
          printed |-> <<Msg("VirtualEnvironmentDeactivated", <<>>, <<>>)>>]

VenvPaths == {<<".venv">>, <<"my">>}

\* venv activate --path p: the command builds VenvManager(path)
VenvActivate ==
    /\ pc = "idle"
    /\ \E path \in VenvPaths :
         LET vm == VenvManager(path, DefaultVenvPath)
             a == activate(vm, environ)
         IN  /\ op' = "venv activate"
             /\ inp' = [path |-> path, before |-> environ]
             /\ environ' = a.environ
             /\ printed' = a.printed
             /\ Finish(IF a.raised # "none" THEN a.raised ELSE "ok")
    /\ UNCHANGED <<tables, fs, net, platform, onPath, python_path,
                   list_of_args, packages, idx, calls, result>>

\* venv deactivate --path p
VenvDeactivate ==
    /\ pc = "idle"
    /\ \E path \in VenvPaths :
         LET vm == VenvManager(path, DefaultVenvPath)
             d == deactivate(vm, environ)
         IN  /\ op' = "venv deactivate"
             /\ inp' = [path |-> path, before |-> environ]
             /\ environ' = d.environ
             /\ printed' = d.printed
             /\ Finish(IF d.raised # "none" THEN d.raised ELSE "ok")
    /\ UNCHANGED <<tables, fs, net, platform, onPath, python_path,
                   list_of_args, packages, idx, calls, result>>

\* a program that calls activate() of a VenvManager for venv_path; it
\* calls deactivate() next
VenvManagerActivate ==
    /\ pc = "idle"
    /\ \E venv_path \in VenvPaths :
         LET vm == VenvManager(<<"3.8">>, venv_path)
             a == activate(vm, environ)
         IN  /\ op' = "activate_deactivate"
             /\ inp' = [path |-> venv_path, before |-> environ]
             /\ environ' = a.environ
             /\ printed' = a.printed
             /\ IF a.raised # "none"
                THEN Finish(a.raised)
                ELSE /\ pc' = "activated"
                     /\ UNCHANGED outcome
    /\ UNCHANGED <<tables, fs, net, platform, onPath, python_path,
                   list_of_args, packages, idx, calls, result>>

\* the call of deactivate() that follows
VenvManagerDeactivate ==
    /\ pc = "activated"
    /\ LET vm == VenvManager(<<"3.8">>, inp.path)
           d == deactivate(vm, environ)
       IN  /\ environ' = d.environ
           /\ printed' = printed \o d.printed
           /\ Finish(IF d.raised # "none" THEN d.raised ELSE "ok")
    /\ UNCHANGED <<tables, fs, net, platform, onPath, op, inp, python_path,
                   list_of_args, packages, idx, calls, result>>

\* the entries a search path may hold
PathEntries ==
    {<<"/usr/bin">>, BinDirOf(<<".venv">>), BinDirOf(<<"my">>),
     <<".venv", "2", DirSep, BinDir>>}

PathStrings == {Join(es, PathSep) : es \in SeqsUpTo(PathEntries, MaxPathEntries)}

InitVenv ==
    /\ platform \in {"win32", "linux"}
    /\ onPath = {}
    /\ pc = "idle"
    /\ op = "none"
    /\ inp = [args |-> <<>>]
    /\ python_path = <<>>
    /\ list_of_args = <<>>
    /\ packages = <<>>
    /\ idx = 0
    /\ calls = <<>>
    /\ printed = <<>>
    /\ result = NoResult
    /\ outcome = "running"
    /\ tables = <<>>
    /\ fs = NoFiles
    /\ net = <<>>
    /\ environ \in [VIRTUAL_ENV : {None} \cup VenvPaths,
                    PATH : {None} \cup PathStrings]

NextVenv ==
    \/ VenvActivate
    \/ VenvDeactivate
    \/ VenvManagerActivate
    \/ VenvManagerDeactivate

SpecVenv == InitVenv /\ [][NextVenv]_vars

VenvDone(o) == pc = "done" /\ op = o /\ inp.before.PATH # None

OnlyEnvironChanged ==
    /\ calls = <<>>
    /\ fs = NoFiles
    /\ net = <<>>
    /\ tables = <<>>

\* C20: venv activate --path p sets the marker variable to p and puts the
\* executables directory of p at the front of the search path; venv
\* deactivate unsets the marker and leaves no entry of the active
\* environment in the search path; neither issues an external call or
\* changes anything but the environment map.  Stated for the runs in which
\* the search-path variable is set.
C20_ActivateSetsGivenPath ==
    /\ VenvDone("venv activate") =>
         /\ outcome = "ok"
         /\ environ.VIRTUAL_ENV = inp.path
         /\ SplitSep(environ.PATH, PathSep)[1] = BinDirOf(inp.path)
         /\ OnlyEnvironChanged
    /\ (VenvDone("venv deactivate") /\ inp.before.VIRTUAL_ENV # None) =>
         /\ outcome = "ok"
         /\ environ.VIRTUAL_ENV = None
         /\ \A i \in DOMAIN SplitSep(environ.PATH, PathSep) :
              SplitSep(environ.PATH, PathSep)[i] # BinDirOf(inp.before.VIRTUAL_ENV)
         /\ OnlyEnvironChanged

----------------------------------------------------------------------------
(* outcome of the operations that make one call *)

SingleCallDone ==
    /\ pc = "done"
    /\ \/ op \in {"install", "uninstall", "build", "check",
                  "check_updates", "list_external_modules"}
       \/ op = "update" /\ inp.package_name # <<>>

Confirmations == {"PackagesInstalled", "PackagesUninstalled", "PackageUpdated"}

ConfirmationPrinted == \E i \in 1..Len(printed) : printed[i].msg \in Confirmations

NoCallFailed ==
    \A k \in 1..Len(calls) :
        calls[k].kind = "CompletedProcess" /\ calls[k].returncode = 0

\* C21: in every operation that makes one call, a non-zero exit of that
\* call is surfaced at once, the invocation ends with a non-zero outcome and
\* no confirmation of success is printed; when no external call fails the
\* invocation ends with outcome zero.
C21_OutcomeFollowsTheCall ==
    SingleCallDone =>
        /\ \A k \in 1..Len(calls) :
             (calls[k].check /\ calls[k].kind = "CalledProcessError") =>
                 /\ k = Len(calls)
                 /\ outcome = "CalledProcessError"
                 /\ exit_status # 0
                 /\ ~ConfirmationPrinted
        /\ NoCallFailed => exit_status = 0

\* the same, for argument strings that are not empty
C21_ExceptEmptyArgs ==
    (SingleCallDone /\ ~(op = "install" /\ inp.args = <<>>)) =>
        /\ \A k \in 1..Len(calls) :
             (calls[k].check /\ calls[k].kind = "CalledProcessError") =>
                 /\ k = Len(calls)
                 /\ outcome = "CalledProcessError"
                 /\ ~ConfirmationPrinted
        /\ NoCallFailed => outcome = "ok"

----------------------------------------------------------------------------
(* the calls of update-all *)

UpdateAllDone == pc = "done" /\ UpdateAllMode /\ UV_EXECUTABLE \in onPath

FreezeCalls == SelectSeq(calls, LAMBDA c : c.argv = FreezeCmd)

\* the package an update call names: the token after "install"
NamedPackage(c) ==
    LET k == CHOOSE i \in 1..Len(c.argv) : c.argv[i] = <<"install">>
    IN  c.argv[k + 1]

\* the calls after the listing call
AfterFreeze ==
    LET k == CHOOSE i \in 1..Len(calls) : calls[i].argv = FreezeCmd
    IN  SubSeq(calls, k + 1, Len(calls))

OneCallPerLine ==
    LET lines == SplitLines(inp.freeze)
    IN  /\ Len(FreezeCalls) = 1
        /\ FreezeCalls[1].kind # "CompletedProcess" => UpdateCalls = <<>>
        /\ FreezeCalls[1].kind = "CompletedProcess" =>
             /\ AfterFreeze = UpdateCalls
             /\ Len(UpdateCalls) = Len(lines)
             /\ \A i \in 1..Len(UpdateCalls) :
                  /\ NamedPackage(UpdateCalls[i]) = BeforeSep(lines[i])
                  /\ UpdateCalls[i].kind = "CompletedProcess"

\* C22: update-all issues exactly one listing call and then, for a listing
\* of n lines, exactly n update calls, one per line and in the order of the
\* lines, each naming the part of its line before the first "==" and each
\* completed before the next; when the listing call fails no update call is
\* issued.  Stated for the runs where the tool is installed.
C22_OneUpdateCallPerLine == UpdateAllDone => OneCallPerLine

\* the same, for the runs in which at most one interpreter path was resolved
C22_WithOneInterpreter ==
    (UpdateAllDone /\ ~Has(python_path, "\n")) => OneCallPerLine

----------------------------------------------------------------------------
(* deactivate, and activate followed by deactivate *)

Entries(path) == SplitSep(path, PathSep)

\* the entries of es that do not begin with marker, in their order
RECURSIVE Kept(_, _)
Kept(es, marker) ==
    IF es = <<>> THEN <<>>
    ELSE (IF StartsWith(Head(es), marker) THEN <<>> ELSE <<Head(es)>>)
           \o Kept(Tail(es), marker)

SomeEntryBegins(path, prefix) ==
    \E i \in DOMAIN Entries(path) : StartsWith(Entries(path)[i], prefix)

DeactivateDone == pc = "done" /\ op = "venv deactivate"

RoundTripDone ==
    pc = "done" /\ op = "activate_deactivate" /\ inp.before.PATH # None

\* C23: deactivate removes from the search path every entry that begins
\* with the value of the marker, and no other entry, and changes nothing
\* in the environment map when the marker is unset; activate followed by
\* deactivate leaves the marker unset and gives back the search path of
\* before exactly when none of its entries begins with the environment path.
C23_DeactivateRemovesPrefixed ==
    /\ (DeactivateDone /\ inp.before.VIRTUAL_ENV = None) =>
         environ = inp.before
    /\ (DeactivateDone /\ inp.before.VIRTUAL_ENV # None
          /\ inp.before.PATH # None) =>
         /\ environ.VIRTUAL_ENV = None
         /\ environ.PATH =
              Join(Kept(Entries(inp.before.PATH), inp.before.VIRTUAL_ENV), PathSep)
         /\ ~SomeEntryBegins(inp.before.PATH, inp.before.VIRTUAL_ENV) =>
              environ.PATH = inp.before.PATH
    /\ RoundTripDone =>
         /\ outcome = "ok"
         /\ environ.VIRTUAL_ENV = None
         /\ environ.PATH = inp.before.PATH
              <=> ~SomeEntryBegins(inp.before.PATH, inp.path)

C23_Witness ==
    /\ RoundTripDone
    /\ inp.path = <<".venv">>
    /\ inp.before.PATH = Join(<<<<"/usr/bin">>, <<".venv", "2", DirSep, BinDir>>>>, PathSep)
    /\ environ.PATH = <<"/usr/bin">>
    /\ environ.VIRTUAL_ENV = None

----------------------------------------------------------------------------
(* venv remove *)

\* packages.lower()
Lower(s) == [i \in 1..Len(s) |-> IF s[i] = "A" THEN "a" ELSE s[i]]

\* as remove_package, with the exit code of the uninstall call not checked
remove_package_unchecked(vm, pkgs, rcU, rcR) ==
    LET package_list == Split(Lower(pkgs))
        uninstall == <<vm.uv_path, PIP_COMMAND, <<"uninstall">>>> \o package_list
        remove == <<vm.uv_path, <<"remove">>>> \o package_list
        r1 == SubprocessRun(uninstall, FALSE, FALSE, Proc(uninstall, rcU, <<>>, <<>>))
        r2 == SubprocessRun(remove, TRUE, FALSE, Proc(remove, rcR, <<>>, <<>>))
    IN  IF Raised(r1)
        THEN [raised |-> r1.kind, calls |-> <<Call(uninstall, FALSE, r1)>>,
              printed |-> <<>>]
        ELSE IF Raised(r2)
        THEN [raised |-> r2.kind,
              calls |-> <<Call(uninstall, FALSE, r1), Call(remove, TRUE, r2)>>,
              printed |-> <<>>]
        ELSE [raised |-> "none",
              calls |-> <<Call(uninstall, FALSE, r1), Call(remove, TRUE, r2)>>,
              printed |-> <<Msg("PackageRemoved", Join(package_list, ","), <<>>)>>]

\* VenvManager.remove_package
remove_package(vm, pkgs, rcU, rcR) ==
    LET package_list == Split(Lower(pkgs))
        uninstall == <<vm.uv_path, PIP_COMMAND, <<"uninstall">>>> \o package_list
        remove == <<vm.uv_path, <<"remove">>>> \o package_list
        r1 == SubprocessRun(uninstall, TRUE, FALSE, Proc(uninstall, rcU, <<>>, <<>>))
        r2 == SubprocessRun(remove, TRUE, FALSE, Proc(remove, rcR, <<>>, <<>>))
    IN  IF Raised(r1)
        THEN [raised |-> r1.kind, calls |-> <<Call(uninstall, TRUE, r1)>>,
              printed |-> <<>>]
        ELSE IF Raised(r2)
        THEN [raised |-> r2.kind,
              calls |-> <<Call(uninstall, TRUE, r1), Call(remove, TRUE, r2)>>,
              printed |-> <<>>]
        ELSE [raised |-> "none",
              calls |-> <<Call(uninstall, TRUE, r1), Call(remove, TRUE, r2)>>,
              printed |-> <<Msg("PackageRemoved", Join(package_list, ","), <<>>)>>]

\* shutil.rmtree(venv_path, ignore_errors=True) on the directories f
RmTree(f, venv_path) ==
    [f EXCEPT ![venv_path] = IF @ = "removable" THEN "absent" ELSE @]

\* VenvManager.remove_venv
remove_venv(vm, env, f) ==
    LET d == deactivate(vm, env)
    IN  IF d.raised # "none"
        THEN [raised |-> d.raised, environ |-> d.environ, fs |-> f,
              printed |-> d.printed]
        ELSE [raised |-> "none", environ |-> d.environ,
              fs |-> RmTree(f, vm.venv_path),
              printed |-> Append(d.printed,
                                 Msg("VirtualEnvironmentRemoved", <<>>, <<>>))]

RemovePackages == {<<>>, <<"a">>, <<"A", " ", "b">>}

\* what click.confirm returns, or that it aborts
Answers == {"y", "n", "abort"}

\* venv remove [packages] [--venv] [--path p]
VenvRemove ==
    /\ pc = "idle"
    /\ \E pkgs \in RemovePackages, venv \in BOOLEAN, path \in VenvPaths,
          answer \in Answers, rcU \in RetCodes, rcR \in RetCodes :
         LET vm == VenvManager(path, DefaultVenvPath)
             p == remove_package(vm, pkgs, rcU, rcR)
             v == remove_venv(vm, environ, fs)
             asked == pkgs = <<>> /\ venv
         IN  /\ op' = "venv remove"
             /\ inp' = [packages |-> pkgs, venv |-> venv, path |-> path,
                        answer |-> IF asked THEN answer ELSE "not asked",
                        before |-> environ, files |-> fs]
             /\ IF pkgs # <<>>
                THEN /\ calls' = p.calls
                     /\ printed' = p.printed
                     /\ UNCHANGED <<fs, environ>>
                     /\ Finish(IF p.raised # "none" THEN p.raised ELSE "ok")
                ELSE IF asked /\ answer = "abort"
                THEN /\ UNCHANGED <<calls, printed, fs, environ>>
                     /\ Finish("Abort")
                ELSE IF asked /\ answer = "y"
                THEN /\ fs' = v.fs
                     /\ environ' = v.environ
                     /\ printed' = v.printed
                     /\ UNCHANGED calls
                     /\ Finish(IF v.raised # "none" THEN v.raised ELSE "ok")
                ELSE /\ UNCHANGED <<calls, printed, fs, environ>>
                     /\ Finish("ok")
    /\ UNCHANGED <<tables, net, platform, onPath, python_path, list_of_args,
                   packages, idx, result>>

\* the directories of the environments, and the environment map, that the
\* command may find
VenvDirs == [VenvPaths -> {"absent", "removable", "unremovable"}]

RemoveEnvirons ==
    [VIRTUAL_ENV : {None} \cup VenvPaths,
     PATH : {None, <<"/usr/bin">>,
             Join(<<BinDirOf(DefaultVenvPath), <<"/usr/bin">>>>, PathSep)}]

InitRemove ==
    /\ platform \in {"win32", "linux"}
    /\ onPath \in SUBSET {UV}
    /\ pc = "idle"
    /\ op = "none"
    /\ inp = [args |-> <<>>]
    /\ python_path = <<>>
    /\ list_of_args = <<>>
    /\ packages = <<>>
    /\ idx = 0
    /\ calls = <<>>
    /\ printed = <<>>
    /\ result = NoResult
    /\ outcome = "running"
    /\ tables = <<>>
    /\ fs \in VenvDirs
    /\ net = <<>>
    /\ environ \in RemoveEnvirons

NextRemove ==
    \/ VenvRemove

SpecRemove == InitRemove /\ [][NextRemove]_vars

RemoveDone == pc = "done" /\ op = "venv remove"

IsRemoveCall(c) == c.argv[2] = <<"remove">>

IsUninstallCall(c) == c.argv[2] = PIP_COMMAND /\ c.argv[3] = <<"uninstall">>

====
